---- MODULE Spec2Model ----
(***************************************************************************)
(* Model of the log ingestion pipeline (scripts/log_ingestion.py): a       *)
(* producer appends text lines to a log file, LogIngestion tails the file  *)
(* from an in-memory offset, parses each line with a regular expression    *)
(* and bulk-inserts the parsed records into a MongoDB collection.          *)
(*                                                                         *)
(* A file is a sequence of tokens.  One token stands for one field of a    *)
(* log line (the literal separators " | ", "UserID: ", ... are implied by  *)
(* the position of the token) and NL is the line terminator, so offsets    *)
(* count tokens the way f.tell() counts bytes.                             *)
(*                                                                         *)
(* LogProcessor (scripts/log_processor.py) reads the collection back and   *)
(* computes statistics, anomalies, peak hours and frequent errors;         *)
(* AnalyticsSpec runs generate_report on collections of its own.           *)
(***************************************************************************)
EXTENDS Integers, Sequences, FiniteSets, TLC

VARIABLES
    file,           \* content of the log file (sequence of tokens)
    exists,         \* whether the log file exists on disk
    pending,        \* rest of a line the producer has written only in part
    nextId,         \* number of the next line the producer writes
    rotated,        \* the file has been removed at least once
    last_position,  \* LogIngestion.last_position
    pc,             \* where ingest_logs stands: "sleep", "insert", "commit"
    beat,           \* parity of the number of cycles the while loop has begun
    parsed_logs,    \* the local parsed_logs of the running cycle, <<>> between cycles
    tellPos,        \* f.tell() of the running cycle, taken after readlines()
    store,          \* the MongoDB collection, in insertion order
    readFrom,       \* offset the latest cycle seeked to
    outcome,        \* how the latest finished cycle of this process ended
    written,        \* insert_many of the running cycle has returned
    dirty,          \* the file changed since the latest readlines()
    repoll,         \* the latest cycle followed a successful one, file unchanged
    stop,           \* how the previous process ended: "none", "clean", "crash"
    recover,        \* batch stored by a cycle that crashed before line 80
    restarts,       \* number of process restarts so far
    failures,       \* number of failed insert_many calls so far
    call,           \* the latest call on LogProcessor and its inputs
    result,         \* what that call returned, or that it raised
    hdfs_file,      \* content of HDFS_FILE (sequence of tokens)
    upload_position, \* last_position of upload_logs_to_hdfs.py
    upload_pc,      \* where the upload loop stands: "sleep", "write"
    new_lines       \* new_lines of the running upload cycle, <<>> between cycles

vars == <<file, exists, pending, nextId, rotated, last_position, pc, beat,
          parsed_logs, tellPos, store, readFrom, outcome, written, dirty,
          repoll, stop, recover, restarts, failures, call, result,
          hdfs_file, upload_position, upload_pc, new_lines>>

\* ------------------------------------------------------------------ bounds
MaxLines == 2
MaxRestarts == 1
MaxFailures == 1

\* ------------------------------------------------------------ log lines
NL == "\n"

TsGood == "2024-01-15 10:30:45.123"
TsUnparsable == "2024-13-45 25:61:61.000"

UserIds == <<"USER_1", "USER_2", "USER_3", "USER_4", "USER_5", "USER_6">>

\* The levels LogGenerator writes.
log_levels == {"INFO", "WARNING", "ERROR", "DEBUG", "CRITICAL"}

\* Kinds of line a producer may write; "ok" is what
\* LogGenerator.generate_log_entry produces, the others are foreign input.
Kinds == {"ok", "badlevel", "badts", "nonnumeric", "missing", "blank"}

generate_log_entry(kind, id) ==
    CASE kind = "ok" ->
           <<TsGood, "INFO", "PaymentService", UserIds[id], "10.0.0.1", "120",
             "Payment", "processed", NL>>
      [] kind = "badlevel" ->
           <<TsGood, "FOO", "AuthService", UserIds[id], "10.0.0.1", "120",
             "Payment", "processed", NL>>
      [] kind = "badts" ->
           <<TsUnparsable, "INFO", "AuthService", UserIds[id], "10.0.0.1",
             "120", "Payment", "processed", NL>>
      [] kind = "nonnumeric" ->
           <<TsGood, "INFO", "AuthService", UserIds[id], "10.0.0.1", "fast",
             "Payment", "processed", NL>>
      [] kind = "missing" ->
           <<TsGood, "INFO", "AuthService", UserIds[id], "10.0.0.1",
             "Payment", "processed", NL>>
      [] OTHER -> <<NL>>

\* ------------------------------------------------------- parse_log_line
\* Character classes of the pattern, as the sets of tokens they match.
Digits == {"120"}                                            \* \d+
IpChars == Digits \cup {"10.0.0.1"}                          \* [\d\.]+
TimestampChars == IpChars \cup {TsGood, TsUnparsable}        \* [\d\-\: \.]+
WordChars == Digits \cup log_levels \cup
             {"FOO", "fast", "PaymentService", "AuthService", "Payment",
              "processed"} \cup
             {UserIds[i] : i \in DOMAIN UserIds}             \* \w+

\* int(): the decimal value of a \d+ token.
int(s) == IF s = "120" THEN 120 ELSE 0

\* datetime.strptime(..., '%Y-%m-%d %H:%M:%S.%f') accepts the token.
StrptimeOk(s) == s = TsGood

\* re.match(pattern, line)
Matches(line) ==
    /\ Len(line) >= 7
    /\ line[1] \in TimestampChars
    /\ line[2] \in WordChars
    /\ line[3] \in WordChars
    /\ line[4] \in WordChars
    /\ line[5] \in IpChars
    /\ line[6] \in Digits
    /\ \A i \in 7..Len(line) : line[i] # NL

\* "record" with the parsed data, "none" for no match, "raise" when
\* strptime raises ValueError on a timestamp the pattern accepted.
parse_log_line(line) ==
    IF Matches(line)
    THEN IF StrptimeOk(line[1])
         THEN [tag |-> "record",
               data |-> [timestamp |-> line[1], level |-> line[2],
                         service |-> line[3], user_id |-> line[4],
                         ip_address |-> line[5],
                         response_time |-> int(line[6]),
                         message |-> SubSeq(line, 7, Len(line))]]
         ELSE [tag |-> "raise", data |-> <<>>]
    ELSE [tag |-> "none", data |-> <<>>]

\* ------------------------------------------------------------ file reads
\* End of the line that starts right after offset b: the offset of its
\* terminator, or the end of the file when the line is not terminated.
NextEnd(f, b) ==
    IF \E i \in (b + 1)..Len(f) : f[i] = NL
    THEN CHOOSE i \in (b + 1)..Len(f) :
             f[i] = NL /\ \A j \in (b + 1)..(i - 1) : f[j] # NL
    ELSE Len(f)

\* f.seek(pos); f.readlines(): everything from pos to the end of the file,
\* cut after each terminator; the last line has no terminator when the
\* file does not end with one.
RECURSIVE readlines(_, _)
readlines(f, pos) ==
    IF pos >= Len(f) THEN <<>>
    ELSE <<SubSeq(f, pos + 1, NextEnd(f, pos))>> \o readlines(f, NextEnd(f, pos))

\* A tell() that reports the position the cycle seeked to, not the position
\* after the read.
tell_seekPos(f, pos) == pos

\* A position taken from the size of the file, not from the file object.
tell_fileSize(f, pos) == Len(f)

\* f.tell() after f.seek(pos) and f.readlines(): the end of the file, or
\* pos itself when pos lies at or beyond the end.
tell(f, pos) == IF pos >= Len(f) THEN pos ELSE Len(f)

\* line.strip(): NL is the only whitespace token.
strip(line) ==
    IF line # <<>> /\ line[Len(line)] = NL
    THEN SubSeq(line, 1, Len(line) - 1)
    ELSE line

\* The for loop of ingest_logs over lines: the records appended to
\* parsed_logs, and whether parse_log_line raised on the way.
RECURSIVE ParseLines(_)
ParseLines(lines) ==
    IF lines = <<>> THEN [raised |-> FALSE, logs |-> <<>>]
    ELSE LET line == strip(Head(lines))
             p == parse_log_line(line)
             rest == ParseLines(Tail(lines))
         IN IF line = <<>> \/ p.tag = "none" THEN rest
            ELSE IF p.tag = "raise" THEN [raised |-> TRUE, logs |-> <<>>]
            ELSE [raised |-> rest.raised,
                  logs |-> IF rest.raised THEN <<>> ELSE <<p.data>> \o rest.logs]

Range(s) == {s[i] : i \in DOMAIN s}

\* ------------------------------------------------------------ LogProcessor
\* The state of scripts/log_processor.py: no LogProcessor constructed yet.
\* Python's None is a record of its own, so that it compares with any dict.
None == [type |-> "NoneType"]
NoCall == [op |-> "none", query_ok |-> TRUE, top_n |-> 0]
NoResult == [raised |-> FALSE, value |-> None]

analyticsVars == <<call, result>>

\* --------------------------------------------------- upload_logs_to_hdfs
\* Lines 21-27 of scripts/upload_logs_to_hdfs.py: HDFS_FILE is created
\* empty and the loop starts at offset 0.
uploadVars == <<hdfs_file, upload_position, upload_pc, new_lines>>

\* --------------------------------------------------------------- initial
\* LogIngestion.__init__: a fresh instance starts at offset 0.
InitialPosition == 0

Init ==
    /\ file = <<>>
    /\ exists = FALSE
    /\ pending = <<>>
    /\ nextId = 1
    /\ rotated = FALSE
    /\ last_position = InitialPosition
    /\ pc = "sleep"
    /\ beat = 0
    /\ parsed_logs = <<>>
    /\ tellPos = 0
    /\ store = <<>>
    /\ readFrom = 0
    /\ outcome = "none"
    /\ written = FALSE
    /\ dirty = FALSE
    /\ repoll = FALSE
    /\ stop = "none"
    /\ recover = <<>>
    /\ restarts = 0
    /\ failures = 0
    /\ call = NoCall
    /\ result = NoResult
    /\ hdfs_file = <<>>
    /\ upload_position = InitialPosition
    /\ upload_pc = "sleep"
    /\ new_lines = <<>>

\* -------------------------------------------------------------- producer
ingestVars == <<last_position, pc, beat, parsed_logs, tellPos, store, readFrom,
                outcome, written, repoll, stop, recover, restarts, failures>>

\* f.write(log_entry + '\n') reaching the file as a whole.
AppendLine ==
    /\ pending = <<>>
    /\ nextId <= MaxLines
    /\ \E kind \in Kinds :
         file' = file \o generate_log_entry(kind, nextId)
    /\ exists' = TRUE
    /\ nextId' = nextId + 1
    /\ dirty' = TRUE
    /\ UNCHANGED <<pending, rotated, ingestVars, analyticsVars, uploadVars>>

\* Where a write may be cut: inside the fields, inside the message, and
\* right before the terminator.
CutPoints == {3, 7, 8}

\* A write that reaches the file without its end: the first k tokens of a
\* line of LogGenerator, the rest still in the producer's buffer.
AppendPartial ==
    /\ pending = <<>>
    /\ nextId <= MaxLines
    /\ \E kind \in {"ok"} :
         LET l == generate_log_entry(kind, nextId)
         IN \E k \in CutPoints \cap 1..(Len(l) - 1) :
              /\ file' = file \o SubSeq(l, 1, k)
              /\ pending' = SubSeq(l, k + 1, Len(l))
    /\ exists' = TRUE
    /\ nextId' = nextId + 1
    /\ dirty' = TRUE
    /\ UNCHANGED <<rotated, ingestVars, analyticsVars, uploadVars>>

\* The buffered rest of the line reaches the file.
AppendRest ==
    /\ pending # <<>>
    /\ file' = file \o pending
    /\ pending' = <<>>
    /\ exists' = TRUE
    /\ dirty' = TRUE
    /\ UNCHANGED <<nextId, rotated, ingestVars, analyticsVars, uploadVars>>

\* The log file is rotated away or deleted; the next write creates it anew.
Remove ==
    /\ exists
    /\ file # <<>>
    /\ exists' = FALSE
    /\ file' = <<>>
    /\ pending' = <<>>
    /\ rotated' = TRUE
    /\ dirty' = TRUE
    /\ UNCHANGED <<nextId, ingestVars, analyticsVars, uploadVars>>

\* ------------------------------------------------------------ ingest_logs
producerVars == <<file, exists, pending, nextId, rotated>>

\* ingest_logs with line 80 inside the "if parsed_logs:" block of line 75: a
\* cycle that accepted no record leaves the offset where it was.
ReadLines_offsetWithBatch ==
    /\ pc = "sleep"
    /\ beat' = 1 - beat
    /\ dirty' = FALSE
    /\ repoll' = (outcome = "ok" /\ ~dirty)
    /\ written' = FALSE
    /\ UNCHANGED <<uploadVars, analyticsVars, producerVars, store, stop, restarts, failures>>
    /\ IF ~exists
       THEN /\ outcome' = "not_found"
            /\ recover' = <<>>
            /\ UNCHANGED <<last_position, pc, parsed_logs, tellPos, readFrom>>
       ELSE \E lines \in {readlines(file, last_position)} :
            \E r \in {ParseLines(lines)} :
               /\ readFrom' = last_position
               /\ tellPos' = tell(file, last_position)
               /\ IF r.raised
                  THEN /\ outcome' = "parse_error"
                       /\ recover' = <<>>
                       /\ parsed_logs' = <<>>
                       /\ UNCHANGED <<last_position, pc>>
                  ELSE IF r.logs # <<>>
                  THEN /\ pc' = "insert"
                       /\ parsed_logs' = r.logs
                       /\ UNCHANGED <<last_position, outcome, recover>>
                  ELSE /\ outcome' = "ok"
                       /\ recover' = <<>>
                       /\ parsed_logs' = <<>>
                       /\ UNCHANGED <<last_position, pc>>

\* Lines 61-80 up to the insert_many call: open, seek, readlines, parse.
\* A cycle with nothing to insert runs through to line 80 at once.
ReadLines ==
    /\ pc = "sleep"
    /\ beat' = 1 - beat
    /\ dirty' = FALSE
    /\ repoll' = (outcome = "ok" /\ ~dirty)
    /\ written' = FALSE
    /\ UNCHANGED <<uploadVars, analyticsVars, producerVars, store, stop, restarts, failures>>
    /\ IF ~exists
       THEN /\ outcome' = "not_found"
            /\ recover' = <<>>
            /\ UNCHANGED <<last_position, pc, parsed_logs, tellPos, readFrom>>
       ELSE \E lines \in {readlines(file, last_position)} :
            \E r \in {ParseLines(lines)} :
               /\ readFrom' = last_position
               /\ tellPos' = tell(file, last_position)
               /\ IF r.raised
                  THEN /\ outcome' = "parse_error"
                       /\ recover' = <<>>
                       /\ parsed_logs' = <<>>
                       /\ UNCHANGED <<last_position, pc>>
                  ELSE IF r.logs # <<>>
                  THEN /\ pc' = "insert"
                       /\ parsed_logs' = r.logs
                       /\ UNCHANGED <<last_position, outcome, recover>>
                  ELSE /\ last_position' = tell(file, last_position)
                       /\ outcome' = "ok"
                       /\ recover' = <<>>
                       /\ parsed_logs' = <<>>
                       /\ UNCHANGED pc

\* Line 76: insert_many returns.
InsertOk ==
    /\ pc = "insert"
    /\ store' = store \o parsed_logs
    /\ written' = TRUE
    /\ pc' = "commit"
    /\ UNCHANGED <<uploadVars, analyticsVars, producerVars, last_position, beat, parsed_logs, tellPos,
                   readFrom, outcome, dirty, repoll, stop, recover, restarts,
                   failures>>

\* A failed insert_many after which the offset is moved on all the same (the
\* order of upload_logs_to_hdfs.py, which takes tell() before it writes).
InsertFail_advances ==
    /\ pc = "insert"
    /\ failures < MaxFailures
    /\ failures' = failures + 1
    /\ pc' = "sleep"
    /\ outcome' = "write_error"
    /\ recover' = <<>>
    /\ last_position' = tellPos
    /\ parsed_logs' = <<>>
    /\ UNCHANGED <<uploadVars, analyticsVars, producerVars, beat, tellPos, store, readFrom, written,
                   dirty, repoll, stop, restarts>>

\* Line 76 raises and no except clause of ingest_logs takes the error: it
\* leaves the while loop of start_continuous_ingestion.
InsertFail_escapes ==
    /\ pc = "insert"
    /\ failures < MaxFailures
    /\ failures' = failures + 1
    /\ pc' = "dead"
    /\ outcome' = "write_error"
    /\ recover' = <<>>
    /\ parsed_logs' = <<>>
    /\ UNCHANGED <<uploadVars, analyticsVars, producerVars, last_position, beat, tellPos, store,
                   readFrom, written, dirty, repoll, stop, restarts>>

\* Line 76 raises; lines 84-85 swallow the error, line 80 is not reached.
InsertFail ==
    /\ pc = "insert"
    /\ failures < MaxFailures
    /\ failures' = failures + 1
    /\ pc' = "sleep"
    /\ outcome' = "write_error"
    /\ recover' = <<>>
    /\ parsed_logs' = <<>>
    /\ UNCHANGED <<uploadVars, analyticsVars, producerVars, last_position, beat, tellPos, store,
                   readFrom, written, dirty, repoll, stop, restarts>>

\* A line 80 that takes the size of the file at that moment
\* (os.path.getsize) and not the position of the file object.
Commit_fileSize ==
    /\ pc = "commit"
    /\ last_position' = Len(file)
    /\ pc' = "sleep"
    /\ outcome' = "ok"
    /\ recover' = <<>>
    /\ parsed_logs' = <<>>
    /\ written' = FALSE
    /\ UNCHANGED <<uploadVars, analyticsVars, producerVars, beat, tellPos, store, readFrom, dirty,
                   repoll, stop, restarts, failures>>

\* Line 80: self.last_position = f.tell().
Commit ==
    /\ pc = "commit"
    /\ last_position' = tellPos
    /\ pc' = "sleep"
    /\ outcome' = "ok"
    /\ recover' = <<>>
    /\ parsed_logs' = <<>>
    /\ written' = FALSE
    /\ UNCHANGED <<uploadVars, analyticsVars, producerVars, beat, tellPos, store, readFrom, dirty,
                   repoll, stop, restarts, failures>>

\* The process ends (Ctrl+C while sleeping, or a crash anywhere) and a new
\* LogIngestion is constructed on the same file and collection.
Restart ==
    /\ restarts < MaxRestarts
    /\ restarts' = restarts + 1
    /\ last_position' = InitialPosition
    /\ pc' = "sleep"
    /\ stop' = IF pc = "sleep" THEN "clean" ELSE "crash"
    /\ recover' = IF pc = "commit" THEN parsed_logs ELSE <<>>
    /\ parsed_logs' = <<>>
    /\ outcome' = "none"
    /\ written' = FALSE
    /\ repoll' = FALSE
    /\ tellPos' = 0
    /\ readFrom' = 0
    /\ beat' = 0
    /\ UNCHANGED <<uploadVars, analyticsVars, producerVars, store, dirty, failures>>

Next ==
    \/ AppendLine
    \/ AppendPartial
    \/ AppendRest
    \/ Remove
    \/ ReadLines
    \/ InsertOk
    \/ InsertFail
    \/ Commit
    \/ Restart

Spec == Init /\ [][Next]_vars

\* Under FairSpec the loop of start_continuous_ingestion keeps cycling (the
\* while True of lines 94-96) and a store write that is attempted again and
\* again eventually succeeds.
FairSpec ==
    /\ Init
    /\ [][Next]_vars
    /\ WF_vars(ReadLines)
    /\ WF_vars(Commit)
    /\ SF_vars(InsertOk)

\* ============================================================ LogProcessor
\* scripts/log_processor.py reads the collection back and analyses it.  In
\* this part a timestamp is a number of hours and a response time a number
\* of units of 100 ms (no rule of detect_anomalies depends on the unit).
\* Values the code rounds to two decimals are kept in hundredths; the
\* threshold of the response time rule is kept in whole units.

\* datetime.now(), in hours.
Now == 48

\* Response times of the documents below.
FastResponse == 1
MidResponse == 30
SlowResponse == 50

MaxInfo == 16
MaxErrors == 4
MaxCopies == 2
MaxTopN == 2

\* A document as parse_log_line builds it and insert_many stores it.
Document(ts, level, service, rt, message) ==
    [timestamp |-> ts, level |-> level, service |-> service,
     user_id |-> "USER_1", ip_address |-> "10.0.0.1",
     response_time |-> rt, message |-> message]

Repeat(d, n) == [i \in 1..n |-> d]

Reverse(s) == [i \in 1..Len(s) |-> s[Len(s) + 1 - i]]

\* The collection in insertion order: documents of the last hour, of the
\* last day and older ones.
Collection(nOld, nInfo, nWarn, nErr, nCrit, nEarlier) ==
    Repeat(Document(Now - 30, "ERROR", "DatabaseService", SlowResponse,
                    "Service unavailable"), nOld) \o
    Repeat(Document(Now, "INFO", "AuthService", FastResponse,
                    "Request completed"), nInfo) \o
    Repeat(Document(Now, "WARNING", "PaymentService", MidResponse,
                    "Database connection failed"), nWarn) \o
    Repeat(Document(Now, "ERROR", "DatabaseService", SlowResponse,
                    "Database connection failed"), nErr) \o
    Repeat(Document(Now, "CRITICAL", "DatabaseService", FastResponse,
                    "Memory limit exceeded"), nCrit) \o
    Repeat(Document(Now - 2, "ERROR", "UserService", FastResponse,
                    "Memory limit exceeded"), nEarlier)

\* collection.find({'timestamp': {'$gte': start_time}}, {'_id': 0})
find(coll, start_time) ==
    SelectSeq(coll, LAMBDA d : d.timestamp >= start_time)

\* A get_logs_dataframe without its try/except: the error of find() leaves
\* the function.
get_logs_dataframe_noExcept(coll, hours, query_ok) ==
    IF query_ok
    THEN [raised |-> FALSE, df |-> find(coll, Now - hours)]
    ELSE [raised |-> TRUE, df |-> <<>>]

\* The DataFrame of the documents of the last hours, empty when there is
\* none or when find() raises.
get_logs_dataframe(coll, hours, query_ok) ==
    IF query_ok
    THEN [raised |-> FALSE, df |-> find(coll, Now - hours)]
    ELSE [raised |-> FALSE, df |-> <<>>]

\* ------------------------------------------------------- pandas, numbers
RECURSIVE SumTo(_, _)
SumTo(xs, n) == IF n = 0 THEN 0 ELSE xs[n] + SumTo(xs, n - 1)

\* Series.sum()
sum(xs) == SumTo(xs, Len(xs))

\* Series.max(), Series.min()
max(xs) == CHOOSE x \in Range(xs) : \A y \in Range(xs) : y <= x
min(xs) == CHOOSE x \in Range(xs) : \A y \in Range(xs) : x <= y

\* round(num / den, 2), in hundredths.
round(num, den) == (200 * num + den) \div (2 * den)

\* Series.mean(), in hundredths.
mean(xs) == round(sum(xs), Len(xs))

\* df[col].value_counts().to_dict(): the values of the column with the
\* number of rows that have each.
LevelCounts(df) ==
    [l \in {df[i].level : i \in DOMAIN df} |->
        Len(SelectSeq(df, LAMBDA d : d.level = l))]

ServiceCounts(df) ==
    [sv \in {df[i].service : i \in DOMAIN df} |->
        Len(SelectSeq(df, LAMBDA d : d.service = sv))]

\* The members of a set of numbers in ascending order.
Ascending(S) ==
    CHOOSE s \in [1..Cardinality(S) -> S] :
        \A i, j \in 1..Cardinality(S) : i < j => s[i] < s[j]

\* ------------------------------------------------- calculate_statistics
\* A calculate_statistics without lines 64-65, with the counts of the empty
\* DataFrame and no mean.
calculate_statistics_zeroCounts(coll, query_ok) ==
    LET q == get_logs_dataframe(coll, 1, query_ok)
        df == q.df
        rts == [i \in DOMAIN df |-> df[i].response_time]
    IN IF q.raised THEN [raised |-> TRUE, value |-> None]
       ELSE [raised |-> FALSE,
             value |-> [type |-> "dict",
                        total_logs |-> Len(df),
                        log_levels |-> LevelCounts(df),
                        services |-> ServiceCounts(df),
                        avg_response_time |->
                            IF df = <<>> THEN None ELSE mean(rts),
                        max_response_time |->
                            IF df = <<>> THEN None ELSE max(rts),
                        min_response_time |->
                            IF df = <<>> THEN None ELSE min(rts),
                        error_count |->
                            Len(SelectSeq(df, LAMBDA d :
                                          d.level \in {"ERROR", "CRITICAL"})),
                        timestamp |-> Now]]

\* None for the empty DataFrame (lines 64-65), the dict of the counts
\* otherwise.
calculate_statistics(coll, query_ok) ==
    LET q == get_logs_dataframe(coll, 1, query_ok)
        df == q.df
        rts == [i \in DOMAIN df |-> df[i].response_time]
    IN IF q.raised THEN [raised |-> TRUE, value |-> None]
       ELSE IF df = <<>> THEN [raised |-> FALSE, value |-> None]
       ELSE [raised |-> FALSE,
             value |-> [type |-> "dict",
                        total_logs |-> Len(df),
                        log_levels |-> LevelCounts(df),
                        services |-> ServiceCounts(df),
                        avg_response_time |-> mean(rts),
                        max_response_time |-> max(rts),
                        min_response_time |-> min(rts),
                        error_count |->
                            Len(SelectSeq(df, LAMBDA d :
                                          d.level \in {"ERROR", "CRITICAL"})),
                        timestamp |-> Now]]

\* ----------------------------------------------------- detect_anomalies
MinSample == 10
ErrorRatePercent == 15

\* A guard that only refuses the empty DataFrame.
InsufficientSample_emptyOnly(df) == df = <<>>

\* df.empty or len(df) < 10
InsufficientSample(df) == df = <<>> \/ Len(df) < MinSample

\* n * n * (the sum of the squared deviations from the mean).
SquaredDeviations(xs) ==
    LET n == Len(xs)
        s == sum(xs)
    IN sum([i \in DOMAIN xs |-> (n * xs[i] - s) * (n * xs[i] - s)])

\* x > mean + 2 * std with the standard deviation taken over n, not n - 1.
AboveThreshold_ddof0(xs, x) ==
    LET n == Len(xs)
        dx == n * x - sum(xs)
    IN dx > 0 /\ dx * dx * n > 4 * SquaredDeviations(xs)

\* x > avg_response + 2 * std_response, where Series.std() is the standard
\* deviation with n - 1 degrees of freedom (pandas' ddof = 1):
\* std * std = SquaredDeviations / (n * n * (n - 1)).
AboveThreshold(xs, x) ==
    LET n == Len(xs)
        dx == n * x - sum(xs)
    IN dx > 0 /\ dx * dx * (n - 1) > 4 * SquaredDeviations(xs)

\* The whole units of avg_response + 2 * std_response.
Threshold(xs) ==
    CHOOSE t \in 0..(3 * max(xs)) :
        ~AboveThreshold(xs, t) /\ AboveThreshold(xs, t + 1)

HighResponseTime(df) ==
    LET xs == [i \in DOMAIN df |-> df[i].response_time]
        slow_requests == SelectSeq(xs, LAMBDA x : AboveThreshold(xs, x))
    IN IF Len(slow_requests) > 0
       THEN <<[type |-> "High Response Time",
               count |-> Len(slow_requests),
               threshold |-> Threshold(xs),
               avg_value |-> mean(slow_requests)]>>
       ELSE <<>>

\* Rows that count as errors when CRITICAL is an error too.
ErrorRows_withCritical(df) ==
    SelectSeq(df, LAMBDA d : d.level \in {"ERROR", "CRITICAL"})

\* df[df['level'] == 'ERROR']
ErrorRows(df) == SelectSeq(df, LAMBDA d : d.level = "ERROR")

\* error_rate > 15, with error_rate = len(errors) / len(df) * 100.
HighErrorRate(df) ==
    LET errors == Len(ErrorRows(df))
    IN IF 100 * errors > ErrorRatePercent * Len(df)
       THEN <<[type |-> "High Error Rate",
               rate |-> round(100 * errors, Len(df)),
               count |-> errors]>>
       ELSE <<>>

detect_anomalies(coll, query_ok) ==
    LET q == get_logs_dataframe(coll, 1, query_ok)
    IN IF q.raised THEN [raised |-> TRUE, value |-> <<>>]
       ELSE IF InsufficientSample(q.df) THEN [raised |-> FALSE, value |-> <<>>]
       ELSE [raised |-> FALSE,
             value |-> HighResponseTime(q.df) \o HighErrorRate(q.df)]

\* ------------------------------------------------------- get_peak_hours
\* The hours of the day with their numbers of documents, by hour.
get_peak_hours(coll, query_ok) ==
    LET q == get_logs_dataframe(coll, 24, query_ok)
        df == q.df
        hours == Ascending({df[i].timestamp % 24 : i \in DOMAIN df})
    IN IF q.raised THEN [raised |-> TRUE, value |-> <<>>]
       ELSE IF df = <<>> THEN [raised |-> FALSE, value |-> <<>>]
       ELSE [raised |-> FALSE,
             value |-> [k \in DOMAIN hours |->
                          [hour |-> hours[k],
                           count |-> Len(SelectSeq(df, LAMBDA d :
                                         d.timestamp % 24 = hours[k]))]]]

\* -------------------------------------------------- get_frequent_errors
DefaultTopN == 5

\* Series.head(n) for n >= 0.
head(s, n) == SubSeq(s, 1, IF n < Len(s) THEN n ELSE Len(s))

\* A value_counts(sort=False): the messages with their counts in any order.
value_counts_unsorted(df) ==
    LET msgs == {df[i].message : i \in DOMAIN df}
        count(m) == Len(SelectSeq(df, LAMBDA d : d.message = m))
    IN {[k \in DOMAIN s |-> [message |-> s[k], count |-> count(s[k])]] :
          s \in {t \in [1..Cardinality(msgs) -> msgs] :
                   \A i, j \in 1..Cardinality(msgs) : i < j => t[i] # t[j]}}

\* error_df['message'].value_counts(): the messages with their counts, by
\* count in descending order.  value_counts sorts with sort_values, whose
\* default kind is numpy's quicksort, which is not stable: messages of the
\* same count come in any order.
value_counts(df) ==
    LET msgs == {df[i].message : i \in DOMAIN df}
        count(m) == Len(SelectSeq(df, LAMBDA d : d.message = m))
    IN {[k \in DOMAIN s |-> [message |-> s[k], count |-> count(s[k])]] :
          s \in {t \in [1..Cardinality(msgs) -> msgs] :
                   \A i, j \in 1..Cardinality(msgs) :
                      i < j => t[i] # t[j] /\ count(t[i]) >= count(t[j])}}

\* The values get_frequent_errors may return.
get_frequent_errors(coll, top_n, query_ok) ==
    LET q == get_logs_dataframe(coll, 24, query_ok)
        error_df == SelectSeq(q.df, LAMBDA d :
                                  d.level \in {"ERROR", "CRITICAL"})
    IN IF q.raised THEN {[raised |-> TRUE, value |-> <<>>]}
       ELSE IF q.df = <<>> \/ error_df = <<>>
       THEN {[raised |-> FALSE, value |-> <<>>]}
       ELSE {[raised |-> FALSE, value |-> head(error_counts, top_n)] :
                error_counts \in value_counts(error_df)}

\* ------------------------------------------------------ generate_report
pipelineVars == <<producerVars, last_position, pc, beat, parsed_logs, tellPos,
                  store, readFrom, outcome, written, dirty, repoll, stop,
                  recover, restarts, failures>>

\* The collection holds what ingestion has stored before the report is
\* made; the pipeline does not run meanwhile.
AnalyticsInit ==
    /\ \E nOld \in 0..1, nInfo \in 0..MaxInfo, nWarn \in 0..MaxCopies,
          nErr \in 0..MaxErrors, nCrit \in 0..MaxCopies,
          nEarlier \in 0..MaxCopies, backwards \in BOOLEAN :
         LET coll == Collection(nOld, nInfo, nWarn, nErr, nCrit, nEarlier)
         IN store = IF backwards THEN Reverse(coll) ELSE coll
    /\ file = <<>>
    /\ exists = FALSE
    /\ pending = <<>>
    /\ nextId = 1
    /\ rotated = FALSE
    /\ last_position = InitialPosition
    /\ pc = "sleep"
    /\ beat = 0
    /\ parsed_logs = <<>>
    /\ tellPos = 0
    /\ readFrom = 0
    /\ outcome = "none"
    /\ written = FALSE
    /\ dirty = FALSE
    /\ repoll = FALSE
    /\ stop = "none"
    /\ recover = <<>>
    /\ restarts = 0
    /\ failures = 0
    /\ call = NoCall
    /\ result = NoResult
    /\ hdfs_file = <<>>
    /\ upload_position = InitialPosition
    /\ upload_pc = "sleep"
    /\ new_lines = <<>>

\* LogProcessor.__init__: server_info() tells whether the store is
\* reachable; if it is not, ConnectionError leaves the constructor.
Construct ==
    /\ call.op = "none"
    /\ \E reachable \in BOOLEAN :
         /\ call' = [op |-> "__init__", query_ok |-> reachable, top_n |-> 0]
         /\ result' = [raised |-> ~reachable, value |-> None]
    /\ UNCHANGED <<pipelineVars, uploadVars>>

\* The four calls of generate_report, in its order; an exception that
\* leaves a call ends generate_report.
Statistics ==
    /\ call.op = "__init__"
    /\ ~result.raised
    /\ \E query_ok \in BOOLEAN :
         /\ call' = [op |-> "calculate_statistics", query_ok |-> query_ok,
                     top_n |-> 0]
         /\ result' = calculate_statistics(store, query_ok)
    /\ UNCHANGED <<pipelineVars, uploadVars>>

Anomalies ==
    /\ call.op = "calculate_statistics"
    /\ ~result.raised
    /\ \E query_ok \in BOOLEAN :
         /\ call' = [op |-> "detect_anomalies", query_ok |-> query_ok,
                     top_n |-> 0]
         /\ result' = detect_anomalies(store, query_ok)
    /\ UNCHANGED <<pipelineVars, uploadVars>>

PeakHours ==
    /\ call.op = "detect_anomalies"
    /\ ~result.raised
    /\ \E query_ok \in BOOLEAN :
         /\ call' = [op |-> "get_peak_hours", query_ok |-> query_ok,
                     top_n |-> 0]
         /\ result' = get_peak_hours(store, query_ok)
    /\ UNCHANGED <<pipelineVars, uploadVars>>

FrequentErrors ==
    /\ call.op = "get_peak_hours"
    /\ ~result.raised
    /\ \E query_ok \in BOOLEAN, top_n \in {DefaultTopN} \cup 0..MaxTopN :
         /\ call' = [op |-> "get_frequent_errors", query_ok |-> query_ok,
                     top_n |-> top_n]
         /\ result' \in get_frequent_errors(store, top_n, query_ok)
    /\ UNCHANGED <<pipelineVars, uploadVars>>

AnalyticsNext ==
    \/ Construct
    \/ Statistics
    \/ Anomalies
    \/ PeakHours
    \/ FrequentErrors

AnalyticsSpec == AnalyticsInit /\ [][AnalyticsNext]_vars

\* ===================================================== upload_logs_to_hdfs
\* scripts/upload_logs_to_hdfs.py tails the same log file with an offset of
\* its own and appends what it reads to a file in HDFS.

\* ''.join(new_lines)
RECURSIVE join(_)
join(lines) ==
    IF lines = <<>> THEN <<>> ELSE Head(lines) \o join(Tail(lines))

\* Lines 31-39: open, seek, readlines, and last_position = f.tell() before
\* anything is sent.  Without the file (lines 46-47) nothing changes.
UploadRead ==
    /\ upload_pc = "sleep"
    /\ IF ~exists
       THEN UNCHANGED <<upload_position, upload_pc, new_lines>>
       ELSE \E lines \in {readlines(file, upload_position)} :
               /\ new_lines' = lines
               /\ upload_position' = tell(file, upload_position)
               /\ upload_pc' = IF lines # <<>> THEN "write" ELSE "sleep"
    /\ UNCHANGED <<hdfs_file, pipelineVars, analyticsVars>>

\* Line 41: client.write(..., append=True) returns.
UploadAppend ==
    /\ upload_pc = "write"
    /\ hdfs_file' = hdfs_file \o join(new_lines)
    /\ upload_pc' = "sleep"
    /\ new_lines' = <<>>
    /\ UNCHANGED <<upload_position, pipelineVars, analyticsVars>>

\* A failed append after which the loop goes back to where the cycle began
\* to read, to send the lines again.
UploadAppendFails_rewinds ==
    /\ upload_pc = "write"
    /\ \E landed \in BOOLEAN :
         hdfs_file' = IF landed THEN hdfs_file \o join(new_lines) ELSE hdfs_file
    /\ upload_position' = upload_position - Len(join(new_lines))
    /\ upload_pc' = "sleep"
    /\ new_lines' = <<>>
    /\ UNCHANGED <<pipelineVars, analyticsVars>>

\* Line 41 raises and lines 48-49 swallow the error; the data may or may
\* not have reached the HDFS file before the error came back.
UploadAppendFails ==
    /\ upload_pc = "write"
    /\ \E landed \in BOOLEAN :
         hdfs_file' = IF landed THEN hdfs_file \o join(new_lines) ELSE hdfs_file
    /\ upload_pc' = "sleep"
    /\ new_lines' = <<>>
    /\ UNCHANGED <<upload_position, pipelineVars, analyticsVars>>

UploadNext ==
    \/ AppendLine
    \/ AppendPartial
    \/ AppendRest
    \/ Remove
    \/ UploadRead
    \/ UploadAppend
    \/ UploadAppendFails

\* One run of the upload script next to the producer.
UploadSpec == Init /\ [][UploadNext]_vars

\* ================================================================ claims

\* The tail of the store is the batch of the running cycle.
BatchStored ==
    /\ Len(store) >= Len(parsed_logs)
    /\ SubSeq(store, Len(store) - Len(parsed_logs) + 1, Len(store)) = parsed_logs

\* C1: within one process, last_position moves only at line 80 of a cycle
\* whose insert_many has returned with the batch in the store (or of a
\* cycle that accepted no record and so had nothing to write), and a cycle
\* whose insert_many fails leaves last_position where the cycle seeked to,
\* so the next cycle reads from the same offset again.
C1_OffsetOnlyAfterWrite ==
    [][/\ (last_position' # last_position /\ restarts' = restarts) =>
            \/ pc = "commit" /\ written /\ BatchStored /\ last_position' = tellPos
            \/ pc = "sleep" /\ pc' = "sleep" /\ parsed_logs' = <<>>
       /\ (pc = "insert" /\ pc' = "sleep" /\ restarts' = restarts) =>
            /\ last_position' = last_position
            /\ last_position' = readFrom
            /\ store' = store]_vars

\* A cycle read bytes beyond the offset, its write failed, and the offset
\* still is where that cycle started.
C1_Witness ==
    /\ pc = "sleep"
    /\ outcome = "write_error"
    /\ tellPos > last_position
    /\ last_position = readFrom

\* C9: a cycle that starts right after a successful cycle of the same
\* process, with no change to the file since that cycle read it, reads no
\* line, writes nothing to the store and leaves last_position unchanged.
C9_RepollReadsNothing ==
    [][(ReadLines /\ outcome = "ok" /\ ~dirty) =>
          /\ readlines(file, last_position) = <<>>
          /\ parsed_logs' = <<>>
          /\ pc' = "sleep"
          /\ store' = store
          /\ last_position' = last_position]_vars

\* A second cycle ran on an unchanged file after a cycle that stored records.
C9_Witness ==
    /\ repoll
    /\ pc = "sleep"
    /\ outcome = "ok"
    /\ store # <<>>
    /\ last_position = Len(file)
    /\ last_position > 0

\* ------------------------------------------------- helpers of the claims
\* Offset of the last line terminator of f, 0 when there is none.
LastNL(f) ==
    IF \E i \in 1..Len(f) : f[i] = NL
    THEN CHOOSE i \in 1..Len(f) : f[i] = NL /\ \A j \in (i + 1)..Len(f) : f[j] # NL
    ELSE 0

\* The complete line of f that ends with the terminator at offset e.
LineEndingAt(f, e) ==
    LET b == LastNL(SubSeq(f, 1, e - 1))
    IN SubSeq(f, b + 1, e - 1)

\* The well-formed line number i as LogGenerator writes it, and its record.
GoodLine(i) == generate_log_entry("ok", i)
GoodRecord(i) == parse_log_line(strip(GoodLine(i))).data

\* The file holds the well-formed line number i, terminator included.
InFile(i) ==
    \E b \in 0..(Len(file) - Len(GoodLine(i))) :
        SubSeq(file, b + 1, b + Len(GoodLine(i))) = GoodLine(i)

IsRaise(line) == parse_log_line(strip(line)).tag = "raise"
NotRaise(line) == ~IsRaise(line)

\* C2: while the file has only been appended to, every complete line of it
\* that ends at or below last_position and that parse_log_line turns into a
\* record has its record in the store.
C2_NoSilentLoss ==
    \A e \in 1..Len(file) :
        (~rotated /\ file[e] = NL /\ e <= last_position) =>
            LET p == parse_log_line(LineEndingAt(file, e))
            IN p.tag = "record" => p.data \in Range(store)

\* C3: under FairSpec, a well-formed terminated line that is in a file
\* which has only been appended to is eventually in the store (unless the
\* file is rotated away first).
C3_EventuallyStored ==
    \A i \in 1..MaxLines :
        (InFile(i) /\ ~rotated) ~> (GoodRecord(i) \in Range(store) \/ rotated)

\* C4: when the previous process was stopped between cycles, with its
\* batches committed, no record is in the store twice.
C4_ExactlyOnceAcrossRestart ==
    stop = "clean" =>
        \A i, j \in DOMAIN store : store[i] = store[j] => i = j

\* C5: in the first cycle after a crash between lines 76 and 80, the only
\* records of the batch that are in the store already are those of the
\* batch the crashed cycle had stored.
C5_OnlyCrashedBatchAgain ==
    (recover # <<>> /\ pc = "insert") =>
        \A r \in Range(parsed_logs) :
            r \in Range(store) => r \in Range(recover)

\* C6: a cycle that reads a file whose end is not terminated takes the end
\* of the last complete line as its new offset and parses the complete
\* lines only.
C6_PartialLineHeldBack ==
    [][(/\ ReadLines
        /\ exists
        /\ Len(file) > 0
        /\ file[Len(file)] # NL
        /\ last_position <= LastNL(file)) =>
          /\ tellPos' = LastNL(file)
          /\ LET r == ParseLines(readlines(SubSeq(file, 1, LastNL(file)),
                                           last_position))
             IN ~r.raised => parsed_logs' = r.logs]_vars

\* C7: a cycle that finds the file shorter than last_position reads it from
\* offset 0 to its end.
C7_RotationResetsOffset ==
    [][(ReadLines /\ exists /\ Len(file) < last_position) =>
          /\ readFrom' = 0
          /\ tellPos' = Len(file)
          /\ parsed_logs' = ParseLines(readlines(file, 0)).logs]_vars

\* C8: a cycle that reads lines, whatever they are, stores the records of
\* the lines that parse and moves last_position past all of them: it has
\* the well-formed records as its batch, or nothing to store and the
\* offset at the end of the file.
C8_BadLineNeverHalts ==
    [][(ReadLines /\ exists /\ readlines(file, last_position) # <<>>) =>
          LET good == ParseLines(SelectSeq(readlines(file, last_position),
                                           NotRaise)).logs
          IN /\ parsed_logs' = good
             /\ \/ pc' = "insert"
                \/ good = <<>> /\ last_position' = Len(file)]_vars

\* C10: every record in the store has a level of the fixed enum and a
\* response time that is not negative.
C10_StoredLevelsInEnum ==
    \A i \in DOMAIN store :
        /\ store[i].level \in log_levels
        /\ store[i].response_time >= 0

\* C11: last_position never decreases while a process runs, whatever the
\* cycles, appends, removals of the file and store failures are; it goes
\* down only when a new LogIngestion is constructed, and then to 0.
C11_OffsetMonotonic ==
    [][last_position' < last_position =>
          /\ restarts' # restarts
          /\ last_position' = InitialPosition]_vars

\* A cycle read a file that is shorter than the offset, and the offset
\* stayed where it was.
C11_Witness ==
    /\ rotated
    /\ exists
    /\ ~dirty
    /\ pc = "sleep"
    /\ outcome = "ok"
    /\ readFrom = last_position
    /\ Len(file) < last_position

ErrorOutcomes == {"not_found", "parse_error", "write_error"}

\* C12: after a cycle that ended with an error (file not found, parse
\* failure, store write failure) the loop is asleep with the next cycle
\* able to start, or already is in that next cycle.
C12_LoopSurvivesErrors ==
    outcome \in ErrorOutcomes =>
        /\ pc \in {"sleep", "insert", "commit"}
        /\ pc = "sleep" => ENABLED ReadLines

\* The cycle after a failed store write has its own write through.
C12_Witness ==
    /\ outcome = "write_error"
    /\ pc = "commit"
    /\ written

\* C13: a cycle that does not find the file reads nothing, writes nothing,
\* keeps last_position and ends as "not found" with the loop asleep; and
\* the first cycle that finds the file after such a cycle reads all the
\* lines of the file.
C13_SourceNotFound ==
    [][/\ (ReadLines /\ ~exists) =>
            /\ outcome' = "not_found"
            /\ pc' = "sleep"
            /\ parsed_logs' = <<>>
            /\ store' = store
            /\ last_position' = last_position
       /\ (ReadLines /\ exists /\ outcome = "not_found") =>
            /\ readFrom' = 0
            /\ parsed_logs' = ParseLines(readlines(file, 0)).logs]_vars

\* The line is blank or parse_log_line returns None for it.
Rejected(line) ==
    \/ strip(line) = <<>>
    \/ parse_log_line(strip(line)).tag = "none"

\* C20: a cycle that reads lines all of which are blank or rejected by
\* parse_log_line attempts no store write and ends with last_position at
\* the end of what it read; and no cycle of a process starts reading below
\* the offset an earlier cycle of that process has reached.
C20_EmptyBatchConsumed ==
    [][/\ (/\ ReadLines
           /\ exists
           /\ readlines(file, last_position) # <<>>
           /\ \A l \in Range(readlines(file, last_position)) : Rejected(l)) =>
             /\ pc' = "sleep"
             /\ outcome' = "ok"
             /\ ~written'
             /\ store' = store
             /\ last_position' = Len(file)
       /\ (ReadLines /\ exists) =>
             /\ readFrom' = last_position
             /\ last_position' >= last_position]_vars

\* A cycle consumed a file of rejected lines: nothing stored, offset at the
\* end of the file.
C20_Witness ==
    /\ pc = "sleep"
    /\ outcome = "ok"
    /\ ~dirty
    /\ ~rotated
    /\ store = <<>>
    /\ Len(file) > 1
    /\ last_position = Len(file)

\* ------------------------------------- helpers of the LogProcessor claims
\* The documents of the collection whose timestamp lies in the last hours.
InWindow(hours) == SelectSeq(store, LAMBDA d : d.timestamp >= Now - hours)

\* The entries of a given type in the list detect_anomalies returned.
Entries(type) == SelectSeq(result.value, LAMBDA a : a.type = type)

\* Number of documents of the last hour with level ERROR.
ErrorsInHour ==
    Cardinality({i \in DOMAIN InWindow(1) : InWindow(1)[i].level = "ERROR"})

\* detect_anomalies has run on a window of at least 10 documents.
AnomaliesOfSample ==
    /\ call.op = "detect_anomalies"
    /\ call.query_ok
    /\ Len(InWindow(1)) >= 10

\* C14 as stated: calculate_statistics on a window without documents
\* returns a dict with total count 0, no level, no service, error count 0
\* and no mean.
C14_EmptyStatistics ==
    (call.op = "calculate_statistics" /\ call.query_ok /\ InWindow(1) = <<>>) =>
        /\ ~result.raised
        /\ result.value.type = "dict"
        /\ result.value.total_logs = 0
        /\ DOMAIN result.value.log_levels = {}
        /\ DOMAIN result.value.services = {}
        /\ result.value.error_count = 0
        /\ result.value.avg_response_time = None

\* C14, amended: calculate_statistics on a window without documents raises
\* nothing and returns None; on a window with documents it returns a dict
\* with their number as total count and the number of ERROR and CRITICAL
\* documents as error count.
C14_EmptyStatisticsNone ==
    (call.op = "calculate_statistics" /\ call.query_ok) =>
        /\ ~result.raised
        /\ InWindow(1) = <<>> => result.value = None
        /\ InWindow(1) # <<>> =>
              /\ result.value.type = "dict"
              /\ result.value.total_logs = Len(InWindow(1))
              /\ result.value.error_count =
                    Cardinality({i \in DOMAIN InWindow(1) :
                        InWindow(1)[i].level \in {"ERROR", "CRITICAL"}})

\* The collection has documents, none of the last hour, and the statistics
\* are None.
C14_Witness ==
    /\ call.op = "calculate_statistics"
    /\ call.query_ok
    /\ store # <<>>
    /\ InWindow(1) = <<>>
    /\ ~result.raised
    /\ result.value = None

\* C15: detect_anomalies on a window of fewer than 10 documents returns the
\* empty list.
C15_FewRecordsNoAnomaly ==
    (call.op = "detect_anomalies" /\ Len(InWindow(1)) < 10) =>
        /\ ~result.raised
        /\ result.value = <<>>

\* Nine documents, more than 15 % of them errors and a third of them far
\* slower than the others, and no anomaly is reported.
C15_Witness ==
    /\ call.op = "detect_anomalies"
    /\ call.query_ok
    /\ Len(InWindow(1)) = 9
    /\ ErrorsInHour = 3
    /\ \A i \in DOMAIN InWindow(1) :
          InWindow(1)[i].level = "ERROR" \/ InWindow(1)[i].response_time = FastResponse
    /\ result.value = <<>>

\* C16: on a window of N >= 10 documents, E of them with level ERROR, the
\* list has one "High Error Rate" entry when 100 * E > 15 * N and none
\* otherwise; the entry has count E and the rate 100 * E / N to two
\* decimals; 20 documents with 4 ERROR give rate 20.00 and count 4.
C16_HighErrorRate ==
    AnomaliesOfSample =>
        LET N == Len(InWindow(1))
            found == Entries("High Error Rate")
        IN /\ Len(found) = IF 100 * ErrorsInHour > 15 * N THEN 1 ELSE 0
           /\ \A k \in DOMAIN found :
                 /\ found[k].count = ErrorsInHour
                 /\ 2 * (found[k].rate * N - 10000 * ErrorsInHour) <= N
                 /\ 2 * (10000 * ErrorsInHour - found[k].rate * N) <= N
           /\ (N = 20 /\ ErrorsInHour = 4) =>
                 /\ Len(found) = 1
                 /\ found[1].rate = 2000
                 /\ found[1].count = 4

\* 20 documents, 4 of them ERROR and some CRITICAL: rate 20.00, count 4.
C16_Witness ==
    /\ AnomaliesOfSample
    /\ Len(InWindow(1)) = 20
    /\ ErrorsInHour = 4
    /\ \E i \in DOMAIN InWindow(1) : InWindow(1)[i].level = "CRITICAL"
    /\ Entries("High Error Rate") =
          <<[type |-> "High Error Rate", rate |-> 2000, count |-> 4]>>

\* The documents of the last hour whose response time x is above
\* mean + 2 * std, where std * std is the sum of the squared deviations
\* from the mean divided by n - ddof: with n * mean = S and Q the sum of
\* the squares, n * x > S and
\* (n * x - S)^2 * (n - ddof) > 4 * n * (n * Q - S^2).
Exceeding(ddof) ==
    LET w == InWindow(1)
        n == Len(w)
        S == sum([i \in DOMAIN w |-> w[i].response_time])
        Q == sum([i \in DOMAIN w |-> w[i].response_time * w[i].response_time])
    IN {i \in DOMAIN w :
          /\ n * w[i].response_time > S
          /\ (n * w[i].response_time - S) * (n * w[i].response_time - S)
                * (n - ddof) > 4 * n * (n * Q - S * S)}

\* The window is nine times 100 ms and once 5000 ms.
NineFastOneSlow ==
    /\ Len(InWindow(1)) = 10
    /\ Cardinality({i \in DOMAIN InWindow(1) :
                       InWindow(1)[i].response_time = 1}) = 9
    /\ Cardinality({i \in DOMAIN InWindow(1) :
                       InWindow(1)[i].response_time = 50}) = 1

\* C17 as stated: on a window of at least 10 documents the list has one
\* "High Response Time" entry when some response time is above mean + 2 *
\* (population standard deviation) and none otherwise, with the number of
\* such documents as count; nine times 100 ms and once 5000 ms give a
\* threshold between 3500 and 3600 ms and count 1.
C17_PopulationThreshold ==
    AnomaliesOfSample =>
        LET found == Entries("High Response Time")
        IN /\ Len(found) = IF Exceeding(0) # {} THEN 1 ELSE 0
           /\ \A k \in DOMAIN found :
                 found[k].count = Cardinality(Exceeding(0))
           /\ NineFastOneSlow =>
                 /\ Len(found) = 1
                 /\ found[1].count = 1
                 /\ found[1].threshold = 35

\* C17, amended: the same with the sample standard deviation (n - 1 in the
\* denominator); nine times 100 ms and once 5000 ms give a threshold
\* between 3600 and 3700 ms and count 1.
C17_SampleThreshold ==
    AnomaliesOfSample =>
        LET found == Entries("High Response Time")
        IN /\ Len(found) = IF Exceeding(1) # {} THEN 1 ELSE 0
           /\ \A k \in DOMAIN found :
                 found[k].count = Cardinality(Exceeding(1))
           /\ NineFastOneSlow =>
                 /\ Len(found) = 1
                 /\ found[1].count = 1
                 /\ found[1].threshold = 36

\* Response times that lie above the population threshold and not above
\* the sample threshold, and no entry for them.
C17_Witness ==
    /\ AnomaliesOfSample
    /\ Exceeding(0) # {}
    /\ Exceeding(1) = {}
    /\ Entries("High Response Time") = <<>>

\* get_frequent_errors returned the first top_n of the messages of the
\* ERROR and CRITICAL documents of the last 24 hours, each with the number
\* of these documents that have it, by count in descending order; if
\* stable, messages of equal counts in the order of their first documents.
FrequentErrorsRanked(stable) ==
    LET errs == SelectSeq(InWindow(24), LAMBDA d :
                              d.level \in {"ERROR", "CRITICAL"})
        msgs == {errs[i].message : i \in DOMAIN errs}
        count(m) == Cardinality({i \in DOMAIN errs : errs[i].message = m})
        first(m) == CHOOSE i \in DOMAIN errs :
                       /\ errs[i].message = m
                       /\ \A j \in 1..(i - 1) : errs[j].message # m
        before(m1, m2) ==
            /\ m1 # m2
            /\ \/ count(m1) > count(m2)
               \/ count(m1) = count(m2) /\ (stable => first(m1) < first(m2))
        v == result.value
    IN /\ ~result.raised
       /\ Len(v) = IF call.top_n < Cardinality(msgs)
                   THEN call.top_n ELSE Cardinality(msgs)
       /\ \A k \in DOMAIN v :
             /\ v[k].message \in msgs
             /\ v[k].count = count(v[k].message)
             /\ \A l \in DOMAIN v :
                   k < l => before(v[k].message, v[l].message)
             /\ \A m \in msgs \ {v[l].message : l \in DOMAIN v} :
                   before(v[k].message, m)

\* C18 as stated: get_frequent_errors returns at most top_n (message,
\* count) pairs of the ERROR and CRITICAL documents, by count in descending
\* order and, for equal counts, in first-seen order.
C18_FrequentErrors ==
    (call.op = "get_frequent_errors" /\ call.query_ok) =>
        FrequentErrorsRanked(TRUE)

\* C18, amended: the same, with no order promised among messages of equal
\* counts.
C18_FrequentErrorsByCount ==
    (call.op = "get_frequent_errors" /\ call.query_ok) =>
        FrequentErrorsRanked(FALSE)

\* Two messages of equal counts were returned, the one seen later first.
C18_Witness ==
    /\ call.op = "get_frequent_errors"
    /\ call.query_ok
    /\ call.top_n = DefaultTopN
    /\ FrequentErrorsRanked(FALSE)
    /\ ~FrequentErrorsRanked(TRUE)

AnalyticsOps ==
    {"calculate_statistics", "detect_anomalies", "get_peak_hours",
     "get_frequent_errors"}

\* C19: a call whose query of the store fails returns the empty result of
\* its kind (None, [], {}, []) and raises nothing.
C19_QueryFailureDegrades ==
    (call.op \in AnalyticsOps /\ ~call.query_ok) =>
        /\ ~result.raised
        /\ result.value = IF call.op = "calculate_statistics"
                          THEN None ELSE <<>>

\* The query of detect_anomalies failed on a collection that has a sample
\* with a high error rate: the call returned the empty list.
C19_Witness ==
    /\ call.op = "detect_anomalies"
    /\ ~call.query_ok
    /\ Len(InWindow(1)) >= 10
    /\ 100 * ErrorsInHour > 15 * Len(InWindow(1))
    /\ ~result.raised
    /\ result.value = <<>>

\* C21: line 80 sets last_position to the end of what the cycle read, also
\* when the file has grown since; the cycle after a successful one starts
\* to read where that one stopped, and what was appended meanwhile is the
\* first it reads.
C21_InterleavedAppendsRead ==
    [][/\ Commit =>
            /\ last_position' = tellPos
            /\ ~rotated => last_position' <= Len(file)
       /\ (ReadLines /\ exists /\ outcome = "ok" /\ ~rotated) =>
            /\ readFrom' = tellPos
            /\ Len(file) > tellPos =>
                  /\ readlines(file, last_position) # <<>>
                  /\ Head(readlines(file, last_position))[1] = file[tellPos + 1]
                  /\ tellPos' = Len(file)]_vars

\* A cycle has its batch in the store and line 80 still to come, and the
\* file has grown beyond what the cycle read.
C21_Witness ==
    /\ pc = "commit"
    /\ written
    /\ dirty
    /\ ~rotated
    /\ tellPos > last_position
    /\ Len(file) > tellPos

\* Number of places of a sequence that hold a token.
Occurrences(s, token) == Cardinality({k \in DOMAIN s : s[k] = token})

\* C22: the upload loop moves its offset to the end of what it read before
\* it sends anything and never moves it back, a failed append included, so
\* no cycle reads what an earlier cycle of the run has read; and the HDFS
\* file holds no line of the producer twice.
C22_AtMostOnce ==
    [][/\ upload_position' >= upload_position
       /\ (UploadRead /\ exists) =>
             /\ upload_position' = tell(file, upload_position)
             /\ upload_pc' = "write" =>
                   /\ upload_position' = Len(file)
                   /\ join(new_lines') =
                         SubSeq(file, upload_position + 1, Len(file))
       /\ (upload_pc = "write" /\ upload_pc' = "sleep") =>
             upload_position' = upload_position
       /\ \A i \in 1..MaxLines :
             Occurrences(hdfs_file', UserIds[i]) <= 1]_vars

\* The lines of a cycle whose append failed are missing in the HDFS file,
\* what was written later is there, and the loop has read the whole file.
C22_Witness ==
    /\ ~rotated
    /\ upload_pc = "sleep"
    /\ upload_position = Len(file)
    /\ hdfs_file # <<>>
    /\ Len(hdfs_file) < Len(file)
    /\ hdfs_file = SubSeq(file, Len(file) - Len(hdfs_file) + 1, Len(file))

====
